---- MODULE Spec2Model ----
(***************************************************************************)
(* Model of the financial-analyst workflow: the LangGraph state machine of *)
(* utils/helpers.py (create_analysis_graph, run_financial_analysis) and    *)
(* the five agent steps in agents/*.py, each translated from its run().    *)
(*                                                                         *)
(* Texts are modelled by what the code reads from them: the keywords the   *)
(* quality gate searches for and the length.  Calls to collaborators (the  *)
(* text generation, the data sources, the progress callback) are inputs    *)
(* drawn from small sets, a raised exception being one of the outcomes.    *)
(***************************************************************************)
EXTENDS Integers, Sequences, FiniteSets, TLC

VARIABLES
    pc,                    \* position of run_financial_analysis / the graph
    company_name,          \* FinancialAnalysisState fields
    research_plan,
    raw_data,
    analyzed_data,
    final_report,
    messages,
    iteration_count,
    quality_check_passed,
    callback,              \* the progress_callback argument of the run
    progress,              \* percentages the callback has been handed
    argument,              \* the company_name argument of the run
    result,                \* what run_financial_analysis returned
    bar,                   \* percentages set on the progress bar of the UI
    trace,                 \* history: the nodes executed so far, in order
    last,                  \* history: what the last executed node observed
    processed_symbols,     \* st.session_state.processed_symbols
    started,               \* history: the symbols whose analysis has started
    submitted,             \* history: form submissions render_dashboard saw
    api_limits,            \* DataSourceManager.api_limits
    incremented            \* history: increments of each API since the reset

vars == <<pc, company_name, research_plan, raw_data, analyzed_data,
          final_report, messages, iteration_count, quality_check_passed,
          callback, progress, argument, result, bar, trace, last,
          processed_symbols, started, submitted, api_limits, incremented>>

state == <<company_name, research_plan, raw_data, analyzed_data,
           final_report, messages, iteration_count, quality_check_passed>>

session == <<processed_symbols, started, submitted>>

manager == <<api_limits, incremented>>

(***************************************************************************)
(* Bounds of the model.                                                    *)
(***************************************************************************)
\* Check executions after which the model stops a run (never reached by the
\* graph as written; it keeps a looping variant of the graph finite).
MaxChecks == 5
\* Largest iteration_count a directly applied quality_checker starts from.
MaxIter == 3
\* Form submissions of one UI session the model follows.
MaxSubmissions == 3
\* increment_api_usage calls the model follows between two resets.
MaxCalls == 3

Companies == {"ACME", "TCS.NS"}

(***************************************************************************)
(* Texts.  A text is the set of gate keywords it contains (matched without *)
(* regard to case, as the code upper()s or lower()s the report first) and  *)
(* its length in characters.                                               *)
(***************************************************************************)
ErrorWords == {"error", "failed"}
RecommendationWords == {"BUY", "SELL", "HOLD", "RECOMMENDATION"}
FinancialWords == {"PRICE", "REVENUE", "PROFIT", "GROWTH", "VALUATION"}

Text(ws, n) == [words |-> ws, len |-> n]
EmptyText == Text({}, 0)
Concat(a, b) == Text(a.words \cup b.words, a.len + b.len)

\* Exception messages the collaborators raise with.
ExcMessage == Text({"boom"}, 4)

Msg(label, n) == [content |-> label, n |-> n]

(***************************************************************************)
(* QueryPlannerAgent.run (agents/query_planner.py).                        *)
(*                                                                         *)
(* A generated reply is what the step reads from it: find('[') as lb,      *)
(* rfind(']') as rb (-1 when absent) and, for the slice content[lb:rb+1],  *)
(* whether json.loads accepts it and the tasks it yields.  A task is       *)
(* [hasDesc, isStr, text]: whether it has a "description" key, and whether *)
(* that description is a string.                                           *)
(***************************************************************************)
Task(t) == [hasDesc |-> TRUE, isStr |-> TRUE, text |-> t]
Item(t, c) == [isStr |-> TRUE, text |-> t, about |-> c]

PlanReplies ==
    { [raises |-> TRUE,  lb |-> -1, rb |-> -1, valid |-> FALSE, tasks |-> <<>>],
      \* no bracket at all
      [raises |-> FALSE, lb |-> -1, rb |-> -1, valid |-> FALSE, tasks |-> <<>>],
      \* a '[' that is never closed
      [raises |-> FALSE, lb |-> 0,  rb |-> -1, valid |-> FALSE, tasks |-> <<>>],
      \* the only ']' stands before the '['
      [raises |-> FALSE, lb |-> 5,  rb |-> 2,  valid |-> FALSE, tasks |-> <<>>],
      \* text between the brackets that is not JSON
      [raises |-> FALSE, lb |-> 3,  rb |-> 9,  valid |-> FALSE, tasks |-> <<>>],
      \* a well-formed plan of two tasks
      [raises |-> FALSE, lb |-> 3,  rb |-> 9,  valid |-> TRUE,
       tasks |-> <<Task("price history"), Task("quarterly earnings")>>],
      \* a task without a description
      [raises |-> FALSE, lb |-> 3,  rb |-> 9,  valid |-> TRUE,
       tasks |-> <<Task("price history"),
                   [hasDesc |-> FALSE, isStr |-> TRUE, text |-> ""]>>],
      \* a description that is a number, not a string
      [raises |-> FALSE, lb |-> 3,  rb |-> 9,  valid |-> TRUE,
       tasks |-> <<[hasDesc |-> TRUE, isStr |-> FALSE, text |-> "7"]>>] }

DefaultTasks(c) ==
    << Item("Get current stock data for", c),
       Item("Analyze financial statements for", c),
       Item("Get recent financial news for", c),
       Item("Review recent SEC filings for", c) >>

FallbackPlan(c) ==
    << Item("Get stock data for", c),
       Item("Analyze financials for", c),
       Item("Get news for", c) >>

\* json.loads(content[lb:rb+1]) raises: the slice is empty or is not JSON.
JsonRaises(r) == (r.rb + 1 <= r.lb) \/ ~r.valid

\* The planner's try block raises: the call, json.loads, or task["description"].
PlanRaises(r) ==
    \/ r.raises
    \/ /\ r.lb # -1 /\ r.rb + 1 # -1
       /\ \/ JsonRaises(r)
          \/ \E i \in 1..Len(r.tasks) : ~r.tasks[i].hasDesc

\* Variant: the except branch stores no plan.
PlanOfWithoutFallback(r, c) ==
    IF PlanRaises(r) THEN <<>>
    ELSE IF r.lb # -1 /\ r.rb + 1 # -1
         THEN [i \in 1..Len(r.tasks) |->
                 [isStr |-> r.tasks[i].isStr, text |-> r.tasks[i].text, about |-> ""]]
         ELSE DefaultTasks(c)

PlanOf(r, c) ==
    IF PlanRaises(r) THEN FallbackPlan(c)
    ELSE IF r.lb # -1 /\ r.rb + 1 # -1
         THEN [i \in 1..Len(r.tasks) |->
                 [isStr |-> r.tasks[i].isStr, text |-> r.tasks[i].text, about |-> ""]]
         ELSE DefaultTasks(c)

PlanMessage(r) ==
    IF PlanRaises(r) THEN Msg("Created fallback research plan", 0)
    ELSE Msg("Created research plan with n tasks",
             IF r.lb # -1 /\ r.rb + 1 # -1 THEN Len(r.tasks) ELSE 4)

(***************************************************************************)
(* DataFetcherAgent (agents/data_fetcher.py).                              *)
(***************************************************************************)
\* Variant: the error is reported inside a record of the source.
ErrorInsideRecord(m) == [error |-> m, source |-> "unknown"]

\* {"error": f"...: {str(e)}"}
ErrorMarker(m) == [error |-> m]
IsError(v) == "error" \in DOMAIN v

\* symbol = company_name.upper(); the exchange suffix it carries, if any.
Suffix(symbol) == IF symbol = "TCS.NS" THEN ".NS" ELSE ""
HasExchangeSuffix(symbol) == Suffix(symbol) \in {".NS", ".BO", ".NSE", ".BSE"}
\* ".NS" in symbol
IsRegional(symbol) == Suffix(symbol) \in {".NS", ".NSE"}
\* f"{symbol}.NS", for the one symbol of Companies that carries no suffix
RegionalVariant(symbol) == "ACME.NS"

\* A ticker.info record: its number of fields, currentPrice (0: absent or
\* None), marketCap (0: absent) and currency ("": absent).
Info(n, price, cap, cur) ==
    [fields |-> n, currentPrice |-> price, marketCap |-> cap, currency |-> cur]

RichInfoFields == 50
MinInfoFields == 10

\* What yfinance answers: for the regional variant, for the symbol as given,
\* and whether a later lookup (history, statements) raises.
YfReplies ==
    { [raises |-> TRUE,  regional |-> Info(0, 0, 0, ""), original |-> Info(0, 0, 0, "")],
      [raises |-> FALSE, regional |-> Info(51, 100, 2000, "INR"),
                         original |-> Info(60, 90, 1500, "USD")],
      [raises |-> FALSE, regional |-> Info(50, 100, 2000, "INR"),
                         original |-> Info(60, 90, 1500, "USD")],
      [raises |-> FALSE, regional |-> Info(60, 0, 2000, "INR"),
                         original |-> Info(10, 0, 0, "")],
      [raises |-> FALSE, regional |-> Info(0, 0, 0, ""),
                         original |-> Info(9, 90, 1500, "USD")] }

\* Variant: a regional record of exactly 50 fields counts as rich.
get_stock_data_rich_from_50(symbol, yf) ==
    LET tryRegional == ~HasExchangeSuffix(symbol)
        useRegional == /\ tryRegional
                       /\ yf.regional.fields >= RichInfoFields
                       /\ yf.regional.currentPrice # 0
        chosen == IF useRegional THEN RegionalVariant(symbol) ELSE symbol
        regionalTag == IF useRegional THEN TRUE ELSE IsRegional(symbol)
        info == IF useRegional THEN yf.regional ELSE yf.original
    IN  IF yf.raises
        THEN ErrorMarker("Failed to fetch stock data")
        ELSE IF info.fields < MinInfoFields
        THEN ErrorMarker("Insufficient data")
        ELSE [ symbol |-> chosen,
               original_symbol |-> symbol,
               company_info |-> info,
               current_price |-> info.currentPrice,
               market_cap |-> info.marketCap,
               data_quality |-> IF info.currentPrice # 0 /\ info.marketCap # 0
                                THEN "good" ELSE "partial",
               market |-> IF regionalTag THEN "Indian Market"
                          ELSE "International Market",
               currency |-> IF info.currency # "" THEN info.currency
                            ELSE IF regionalTag THEN "INR" ELSE "USD" ]

\* Of the essential fields whose absence makes data_quality "partial", the
\* record keeps currentPrice and marketCap.
get_stock_data(symbol, yf) ==
    LET tryRegional == ~HasExchangeSuffix(symbol)
        useRegional == /\ tryRegional
                       /\ yf.regional.fields > RichInfoFields
                       /\ yf.regional.currentPrice # 0
        chosen == IF useRegional THEN RegionalVariant(symbol) ELSE symbol
        regionalTag == IF useRegional THEN TRUE ELSE IsRegional(symbol)
        info == IF useRegional THEN yf.regional ELSE yf.original
    IN  IF yf.raises
        THEN ErrorMarker("Failed to fetch stock data")
        ELSE IF info.fields < MinInfoFields
        THEN ErrorMarker("Insufficient data")
        ELSE [ symbol |-> chosen,
               original_symbol |-> symbol,
               company_info |-> info,
               current_price |-> info.currentPrice,
               market_cap |-> info.marketCap,
               data_quality |-> IF info.currentPrice # 0 /\ info.marketCap # 0
                                THEN "good" ELSE "partial",
               market |-> IF regionalTag THEN "Indian Market"
                          ELSE "International Market",
               currency |-> IF info.currency # "" THEN info.currency
                            ELSE IF regionalTag THEN "INR" ELSE "USD" ]

AvReplies == { [raises |-> TRUE], [raises |-> FALSE] }

get_alpha_vantage_data(symbol, av) ==
    IF av.raises
    THEN ErrorMarker("Alpha Vantage API error")
    ELSE [overview |-> "overview", daily_prices |-> "daily", source |-> "alpha_vantage"]

ImportantForms == {"10-K", "10-Q", "8-K", "DEF 14A"}
FilingsCap == 20

RECURSIVE SelectSeq2(_, _, _)
\* [f(i) for i in 1..n if keep(i)], in order: forms as a sequence, from index i on.
SelectSeq2(forms, i, n) ==
    IF i > n THEN <<>>
    ELSE IF forms[i] \in ImportantForms
         THEN <<[form |-> forms[i], index |-> i]>> \o SelectSeq2(forms, i + 1, n)
         ELSE SelectSeq2(forms, i + 1, n)

Min(a, b) == IF a < b THEN a ELSE b

\* Variant: the forms are filtered first and the result is capped.
RecentFilingsFilteredFirst(forms) ==
    LET all == SelectSeq2(forms, 1, Len(forms))
    IN  SubSeq(all, 1, Min(Len(all), FilingsCap))

\* forms[:20], filtered to the important forms
RecentFilings(forms) == SelectSeq2(forms, 1, Min(Len(forms), FilingsCap))

EdgarReplies ==
    { [raises |-> TRUE,  tickers |-> {}, forms |-> <<>>],
      [raises |-> FALSE, tickers |-> {"MSFT"}, forms |-> <<>>],
      [raises |-> FALSE, tickers |-> {"ACME", "TCS.NS"},
       forms |-> <<"10-K", "4", "8-K">>],
      [raises |-> FALSE, tickers |-> {"ACME", "TCS.NS"},
       forms |-> [i \in 1..22 |-> IF i \in {2, 21} THEN "10-Q" ELSE "4"]] }

get_sec_filings(symbol, ed) ==
    IF ed.raises
    THEN ErrorMarker("SEC EDGAR API error")
    ELSE IF symbol \notin ed.tickers
    THEN ErrorMarker("Could not find CIK for symbol")
    ELSE [ company_name |-> "name", cik |-> "0000000001",
           recent_filings |-> RecentFilings(ed.forms), source |-> "sec_edgar" ]

\* The news key of the configuration, and what stocknewsapi.com answers.
NewsReplies ==
    { [configured |-> FALSE, raises |-> FALSE, status |-> 0],
      [configured |-> TRUE,  raises |-> TRUE,  status |-> 0],
      [configured |-> TRUE,  raises |-> FALSE, status |-> 200],
      [configured |-> TRUE,  raises |-> FALSE, status |-> 500] }

\* Variant: a lookup without a configured key reports an error.
get_financial_news_requiring_key(company, nw) ==
    IF ~nw.configured
    THEN ErrorMarker("News API key not configured")
    ELSE IF nw.raises
    THEN ErrorMarker("News fetch error")
    ELSE IF nw.status = 200
    THEN [data |-> "articles"]
    ELSE [ message |-> "News search - API key not configured",
           sample_headlines |-> <<company, company, company>> ]

get_financial_news(company, nw) ==
    IF nw.configured /\ nw.raises
    THEN ErrorMarker("News fetch error")
    ELSE IF nw.configured /\ nw.status = 200
    THEN [data |-> "articles"]
    ELSE [ message |-> "News search - API key not configured",
           sample_headlines |-> <<company, company, company>> ]

\* The answers of the four sources during one execution of the step: every
\* combination of failing and answering sources, and the other answers of
\* each source with the three others answering.
Reply(yf, av, ed, nw) == [yf |-> yf, av |-> av, ed |-> ed, nw |-> nw]

YfFails == CHOOSE r \in YfReplies : r.raises
YfAnswers == CHOOSE r \in YfReplies :
                 ~r.raises /\ r.regional.fields = RichInfoFields
AvAnswers == [raises |-> FALSE]
EdFails == CHOOSE r \in EdgarReplies : r.raises
EdAnswers == CHOOSE r \in EdgarReplies : ~r.raises /\ Len(r.forms) = 3
NwFails == CHOOSE r \in NewsReplies : r.raises
NwAnswers == CHOOSE r \in NewsReplies : ~r.configured

FetchReplies ==
    { Reply(yf, av, ed, nw) :
        yf \in {YfFails, YfAnswers}, av \in AvReplies,
        ed \in {EdFails, EdAnswers}, nw \in {NwFails, NwAnswers} }
    \cup { Reply(yf, AvAnswers, EdAnswers, NwAnswers) : yf \in YfReplies }
    \cup { Reply(YfAnswers, AvAnswers, ed, NwAnswers) : ed \in EdgarReplies }
    \cup { Reply(YfAnswers, AvAnswers, EdAnswers, nw) : nw \in NewsReplies }

\* The answers a run of the whole graph draws from: all sources answering,
\* all failing, the news failing, and the regional market answering.
RunFetchReplies ==
    { Reply(YfAnswers, AvAnswers, EdAnswers, NwAnswers),
      Reply(YfFails, [raises |-> TRUE], EdFails, NwFails),
      Reply(YfAnswers, AvAnswers, EdAnswers, NwFails),
      Reply(CHOOSE r \in YfReplies : ~r.raises /\ r.regional.fields > RichInfoFields
                                     /\ r.regional.currentPrice # 0,
            AvAnswers, EdAnswers, NwAnswers) }

SourceKeys == <<"stock_data", "alpha_vantage", "sec_filings", "news">>

\* state["raw_data"][k] = v
SetKey(d, k, v) == [x \in DOMAIN d \cup {k} |-> IF x = k THEN v ELSE d[x]]

\* list(raw_data.keys()): the keys in insertion order
Keys(d) == SelectSeq(SourceKeys, LAMBDA k : k \in DOMAIN d)

\* Variant: no try/except inside the get_* methods, the first call that
\* raises ends the collection and the keys after it are not assigned.
FetchRawDataUntilFailure(rd, company, w) ==
    LET symbol == company
        f1 == w.yf.raises
        f2 == f1 \/ w.av.raises
        f3 == f2 \/ w.ed.raises
        f4 == f3 \/ (w.nw.configured /\ w.nw.raises)
        d1 == IF f1 THEN rd
              ELSE SetKey(rd, "stock_data", get_stock_data(symbol, w.yf))
        d2 == IF f2 THEN d1
              ELSE SetKey(d1, "alpha_vantage", get_alpha_vantage_data(symbol, w.av))
        d3 == IF f3 THEN d2
              ELSE SetKey(d2, "sec_filings", get_sec_filings(symbol, w.ed))
    IN  IF f4 THEN d3
        ELSE SetKey(d3, "news", get_financial_news(company, w.nw))

\* Variant: a record stored by an earlier pass is kept when the source
\* fails on this pass.
FetchRawDataKeepingRecords(rd, company, w) ==
    LET symbol == company
        new == [k \in {"stock_data", "alpha_vantage", "sec_filings", "news"} |->
                  CASE k = "stock_data" -> get_stock_data(symbol, w.yf)
                    [] k = "alpha_vantage" -> get_alpha_vantage_data(symbol, w.av)
                    [] k = "sec_filings" -> get_sec_filings(symbol, w.ed)
                    [] k = "news" -> get_financial_news(company, w.nw)]
    IN  [k \in DOMAIN new |->
            IF IsError(new[k]) /\ k \in DOMAIN rd /\ ~IsError(rd[k])
            THEN rd[k] ELSE new[k]]

\* Variant: the mapping is rebuilt from the sources that answered.
FetchRawDataAnsweredOnly(rd, company, w) ==
    LET symbol == company
        all == [k \in {"stock_data", "alpha_vantage", "sec_filings", "news"} |->
                  CASE k = "stock_data" -> get_stock_data(symbol, w.yf)
                    [] k = "alpha_vantage" -> get_alpha_vantage_data(symbol, w.av)
                    [] k = "sec_filings" -> get_sec_filings(symbol, w.ed)
                    [] k = "news" -> get_financial_news(company, w.nw)]
    IN  [k \in {x \in DOMAIN all : ~IsError(all[x])} |-> all[k]]

FetchRawData(rd, company, w) ==
    LET symbol == company
        d1 == SetKey(rd, "stock_data", get_stock_data(symbol, w.yf))
        d2 == SetKey(d1, "alpha_vantage", get_alpha_vantage_data(symbol, w.av))
        d3 == SetKey(d2, "sec_filings", get_sec_filings(symbol, w.ed))
    IN  SetKey(d3, "news", get_financial_news(company, w.nw))

(***************************************************************************)
(* DataAnalystAgent.run (agents/data_analyst.py).  The only call of the    *)
(* try block that can raise is the generation call.                        *)
(***************************************************************************)
\* str(raw_data[k]) of the three sources of the digest: its length.
Rendering(sec, news, av) ==
    [sec_filings |-> sec, news |-> news, alpha_vantage |-> av]

\* What the step's collaborators answer: the generation call, and str() of
\* the three sources.
AnalysisReplies ==
    { [raises |-> TRUE,  content |-> EmptyText,
       rendered |-> Rendering(900, 120, 301)],
      [raises |-> FALSE, content |-> Text({"BUY", "REVENUE"}, 900),
       rendered |-> Rendering(900, 120, 301)] }

\* Characters of a source's text the digest keeps.
SecFilingsCap == 500
NewsCap == 300
AlphaVantageCap == 300
EllipsisLen == 3

\* Variant: a text of exactly cap characters is cut as well.
SummaryCutFromCap(n, cap) ==
    IF n >= cap
    THEN [kept |-> Min(n, cap), ellipsis |-> TRUE]
    ELSE [kept |-> n, ellipsis |-> FALSE]

\* text[:cap] + "..." if len(text) > cap else text, for a text of n
\* characters: the characters kept of it, and whether "..." follows.
Summary(n, cap) ==
    IF n > cap
    THEN [kept |-> Min(n, cap), ellipsis |-> TRUE]
    ELSE [kept |-> n, ellipsis |-> FALSE]

SummaryLen(sm) == sm.kept + (IF sm.ellipsis THEN EllipsisLen ELSE 0)

\* Market caps are counted in thousands of the currency unit: 1e9 and 1e12.
Billion == 1000000
Trillion == 1000000000

\* market_cap_str: the currency symbol and the bucket letter around the
\* scaled figure (the digits are not modelled); str(market_cap) when the
\* market cap is absent or not positive.
MarketCapStr(cap, currency) ==
    IF cap > 0
    THEN [ symbol |-> IF currency = "INR" THEN "rupee" ELSE "dollar",
           bucket |-> IF cap >= Trillion THEN "T"
                      ELSE IF cap >= Billion THEN "B" ELSE "M" ]
    ELSE [ symbol |-> "", bucket |-> "" ]

\* What the step hands to the generation call.
Prompt(rd, rendered) ==
    [ stock_summary |->
          IF "stock_data" \in DOMAIN rd /\ ~IsError(rd["stock_data"])
          THEN [ available |-> TRUE,
                 market_cap |-> MarketCapStr(rd["stock_data"].company_info.marketCap,
                                             rd["stock_data"].currency),
                 market |-> rd["stock_data"].market,
                 currency |-> rd["stock_data"].currency ]
          ELSE [ available |-> FALSE ],
      sec_summary |-> Summary(rendered.sec_filings, SecFilingsCap),
      news_summary |-> Summary(rendered.news, NewsCap),
      av_summary |-> Summary(rendered.alpha_vantage, AlphaVantageCap) ]

\* Variant: the except branch adds its two keys to the mapping it finds.
AnalyzedDataUpdated(rd, company, r) ==
    IF r.raises
    THEN [ k \in DOMAIN analyzed_data \cup {"error", "fallback_analysis"} |->
             IF k = "error" THEN "Analysis failed"
             ELSE IF k = "fallback_analysis"
                  THEN Item("Basic analysis for", company)
                  ELSE analyzed_data[k] ]
    ELSE [ detailed_analysis |-> r.content,
           timestamp |-> "now",
           data_sources_used |-> Keys(rd) ]

AnalyzedData(rd, company, r) ==
    IF r.raises
    THEN [ error |-> "Analysis failed",
           fallback_analysis |-> Item("Basic analysis for", company) ]
    ELSE [ detailed_analysis |-> r.content,
           timestamp |-> "now",
           data_sources_used |-> Keys(rd) ]

AnalystMessage(rd, r) ==
    IF r.raises
    THEN Msg("Analysis encountered issues, fallback analysis created", 0)
    ELSE Msg("Completed comprehensive analysis using n data sources",
             Cardinality(DOMAIN rd))

(***************************************************************************)
(* ReportWriterAgent.run (agents/report_writer.py).                        *)
(***************************************************************************)
\* ", ".join(research_plan) raises TypeError on an item that is no string.
JoinRaises(plan) == \E i \in 1..Len(plan) : ~plan[i].isStr

\* Bodies the generation call returns for the report.
ReportReplies ==
    { [raises |-> TRUE,  content |-> EmptyText],
      [raises |-> FALSE, content |-> Text({"BUY", "PRICE"}, 2000)],
      [raises |-> FALSE, content |-> Text({"failed", "SELL", "GROWTH"}, 2000)],
      [raises |-> FALSE, content |-> Text({}, 10)] }

\* Characters of the header and the disclaimer around the generated body,
\* and of the fixed text of the error report (a four-letter company name,
\* four data sources; the report matches "error" through its "Error:" line).
EnvelopeLen == 467
ErrorReportLen == 273

WriterRaises(plan, r) == JoinRaises(plan) \/ r.raises

\* Variant: the except branch stores no error report.
FinalReportEmptyOnFailure(plan, r) ==
    IF WriterRaises(plan, r)
    THEN EmptyText
    ELSE Concat(Text({}, EnvelopeLen), r.content)

\* The fixed text of the error report around the exception message: beside
\* the gate keyword of its "Error:" line, the phrases the report is known
\* by, the company name and the joined keys of raw_data.
ErrorReportFrame ==
    Text({"error", "technical difficulties", company_name} \cup DOMAIN raw_data,
         ErrorReportLen)

\* Variant: the error report gives the status without the "Error:" line.
FinalReportWithoutErrorLine(plan, r) ==
    IF WriterRaises(plan, r)
    THEN Text({"technical difficulties", company_name} \cup DOMAIN raw_data,
              ErrorReportLen)
    ELSE Concat(Text({}, EnvelopeLen), r.content)

FinalReport(plan, r) ==
    IF WriterRaises(plan, r)
    THEN Concat(ErrorReportFrame, ExcMessage)
    ELSE Concat(Text({}, EnvelopeLen), r.content)

WriterMessage(plan, r) ==
    IF WriterRaises(plan, r)
    THEN Msg("Report generation failed, error report created", 0)
    ELSE Msg("Generated comprehensive investment report", 0)

(***************************************************************************)
(* QualityCheckerAgent.run (agents/quality_checker.py).                    *)
(*                                                                         *)
(* An assessment is a sequence of lines, a line the sequence of its parts  *)
(* between colons (line.split(':')), a part the sequence of its words      *)
(* (part.strip().split()).                                                 *)
(***************************************************************************)
ScoreLine(tok) == << <<"QUALITY_SCORE">>, <<tok>> >>

Assessments ==
    { << ScoreLine("4") >>,
      << ScoreLine("5") >>,
      << << <<"Solid", "report">> >>, ScoreLine("6"), ScoreLine("2") >>,
      << ScoreLine("11") >>,
      \* no QUALITY_SCORE line
      << << <<"Looks", "fine">> >> >>,
      \* "QUALITY_SCORE: 3/10"
      << ScoreLine("3/10") >>,
      \* "**QUALITY_SCORE:** 3"
      << << <<"**QUALITY_SCORE">>, <<"**", "3">> >> >>,
      \* "QUALITY_SCORE:" with nothing after the colon
      << << <<"QUALITY_SCORE">>, <<>> >> >>,
      \* "Note: the QUALITY_SCORE: 3"
      << << <<"Note">>, <<"the", "QUALITY_SCORE">>, <<"3">> >> >> }

CheckReplies ==
    {[raises |-> TRUE, content |-> <<>>]}
    \cup {[raises |-> FALSE, content |-> a] : a \in Assessments}

\* int(tok): the words Python's int() accepts, with their values
IntLiterals == { <<"0", 0>>, <<"2", 2>>, <<"3", 3>>, <<"4", 4>>, <<"5", 5>>,
                 <<"6", 6>>, <<"9", 9>>, <<"11", 11>> }
IsInt(tok) == \E p \in IntLiterals : p[1] = tok
IntOf(tok) == (CHOOSE p \in IntLiterals : p[1] = tok)[2]

\* 'QUALITY_SCORE:' in line
EndsWithMarker(tok) == tok \in {"QUALITY_SCORE", "**QUALITY_SCORE"}
HasMarker(line) ==
    \E i \in 1..(Len(line) - 1) :
        Len(line[i]) > 0 /\ EndsWithMarker(line[i][Len(line[i])])

DefaultScore == 8

ParseScore(assessment) ==
    LET marked == SelectSeq(assessment, HasMarker)
    IN  IF Len(marked) = 0 THEN DefaultScore
        ELSE LET part == marked[1][2]
             IN  IF Len(part) = 0 THEN DefaultScore
                 ELSE IF IsInt(part[1]) THEN IntOf(part[1])
                 ELSE DefaultScore

has_errors(report) == report.words \cap ErrorWords # {}
has_recommendation(report) == report.words \cap RecommendationWords # {}
has_financial_data(report) == report.words \cap FinancialWords # {}
ShortReportLen == 500
is_too_short(report) == report.len < ShortReportLen

PassScore == 6
LenientScore == 5
MaxIterations == 2

\* Variant: the two content gates apply to short reports too.
needs_improvement_any_length(report, score) ==
    \/ has_errors(report)
    \/ score < PassScore
    \/ ~has_recommendation(report)
    \/ ~has_financial_data(report)

needs_improvement(report, score) ==
    \/ has_errors(report)
    \/ score < PassScore
    \/ ~has_recommendation(report) /\ ~is_too_short(report)
    \/ ~has_financial_data(report) /\ ~is_too_short(report)

\* Variant: the first-pass leniency asks for more than LenientScore.
LenientAboveScore(ic, score) == ic = 0 /\ score > LenientScore

\* "Be more lenient on first iteration"
Lenient(ic, score) == ic = 0 /\ score >= LenientScore

\* Variant: the cap is compared one off.
AcceptAfterMaxOffByOne(ic) == ~(ic <= MaxIterations)

\* "Accept after max iterations"
AcceptAfterMax(ic) == ~(ic < MaxIterations)

\* Variant: the first pass is judged like the later ones.
VerdictWithoutLeniency(ic, report, score) ==
    IF ~needs_improvement(report, score) THEN TRUE ELSE AcceptAfterMax(ic)

\* quality_check_passed as lines 96-111 set it
Verdict(ic, report, score) ==
    LET ni == IF Lenient(ic, score) THEN FALSE ELSE needs_improvement(report, score)
    IN  IF ~ni THEN TRUE ELSE AcceptAfterMax(ic)

\* The checker's try block raises: the join of the plan or the generation call.
CheckRaises(plan, r) == JoinRaises(plan) \/ r.raises

\* Variant: the increment is left out.
IterationAfterNoIncrement(ic, raised) == ic

\* iteration_count after the step: line 117 is the last line of the try block
IterationAfter(ic, raised) == IF raised THEN ic ELSE ic + 1

\* Variant: the except branch leaves the verdict as it finds it.
PassedAfterKeptOnFault(ic, plan, report, r) ==
    IF CheckRaises(plan, r) THEN quality_check_passed
    ELSE Verdict(ic, report, ParseScore(r.content))

\* Variant: the except branch rejects the report (fail-closed).
PassedAfterFailClosed(ic, plan, report, r) ==
    IF CheckRaises(plan, r) THEN FALSE
    ELSE Verdict(ic, report, ParseScore(r.content))

PassedAfter(ic, plan, report, r) ==
    IF CheckRaises(plan, r) THEN TRUE
    ELSE Verdict(ic, report, ParseScore(r.content))

CheckMessage(ic, plan, report, r) ==
    IF CheckRaises(plan, r)
    THEN Msg("Quality check failed due to error, accepting report", 0)
    ELSE IF PassedAfter(ic, plan, report, r)
    THEN Msg("Quality check completed. Status: APPROVED", 0)
    ELSE Msg("Quality check completed. Status: NEEDS_IMPROVEMENT", 0)

(***************************************************************************)
(* The graph of create_analysis_graph (utils/helpers.py).                  *)
(***************************************************************************)
EngineMaxIterations == 2

\* Variant: the cap ends the run after the first Check.
should_continue_after_one(quality_passed, ic) ==
    IF quality_passed \/ ic >= EngineMaxIterations - 1 THEN "end"
    ELSE "data_fetcher"

\* Variant: the cap ends the run only above max_iterations.
should_continue_above_cap(quality_passed, ic) ==
    IF quality_passed \/ ic > EngineMaxIterations THEN "end" ELSE "data_fetcher"

should_continue(quality_passed, ic) ==
    IF quality_passed \/ ic >= EngineMaxIterations THEN "end" ELSE "data_fetcher"

\* Variant: the loop re-enters the graph at the analyst.
RouteToAnalyst(decision) == IF decision = "end" THEN "Done" ELSE "Analyze"

\* add_conditional_edges: {"data_fetcher": "data_fetcher", "end": END}
Route(decision) == IF decision = "end" THEN "Done" ELSE "Fetch"

\* add_edge: START -> query_planner -> data_fetcher -> data_analyst
\*           -> report_writer -> quality_checker
Edge(node) ==
    CASE node = "Start"   -> "Plan"
      [] node = "Plan"    -> "Fetch"
      [] node = "Fetch"   -> "Analyze"
      [] node = "Analyze" -> "Write"
      [] node = "Write"   -> "Check"

Count(node, tr) == Cardinality({i \in 1..Len(tr) : tr[i] = node})

\* DataSourceManager.__init__ (utils/data_sources.py): the usage record of
\* each tracked API.
ApiLimits ==
    [ alpha_vantage |-> [daily_limit |-> 500, calls_today |-> 0],
      stock_news    |-> [daily_limit |-> 100, calls_today |-> 0],
      sec_edgar     |-> [rate_limit |-> "10_per_second", calls_today |-> 0] ]

\* No increment since the last reset.
NoIncrements == [a \in DOMAIN ApiLimits |-> <<>>]

\* No value has been returned.
NoResult == <<>>

\* The answers of the sources when no source was asked.
NoReplies == Reply(<<>>, <<>>, <<>>, <<>>)

\* What a node observed when it ran (history only): the state it was handed
\* and the answers of its collaborators; for the analyst also what it sent
\* to the generation call.
Seen(node, raised, score) ==
    [ node |-> node, raised |-> raised, ic_in |-> iteration_count,
      passed_in |-> quality_check_passed, score |-> score,
      report |-> final_report, messages_in |-> Len(messages),
      raw_in |-> raw_data, analyzed_in |-> analyzed_data,
      replies |-> NoReplies, sent |-> <<>> ]

NothingSeen ==
    [ node |-> "none", raised |-> FALSE, ic_in |-> 0, passed_in |-> FALSE,
      score |-> 0, report |-> EmptyText, messages_in |-> 0,
      raw_in |-> <<>>, analyzed_in |-> <<>>, replies |-> NoReplies,
      sent |-> <<>> ]

(***************************************************************************)
(* run_financial_analysis (utils/helpers.py): the initial state, the first *)
(* progress report, graph.invoke.  cb: whether a progress_callback is      *)
(* given; cbRaises: whether this invocation of it raises.                  *)
(***************************************************************************)
\* The run was started by trigger_analysis, whose progress_callback sets
\* the progress bar: progress_bar.progress(progress / 100).
FromUi == bar # <<>>

\* Variant: the run starts with the first pass already counted.
run_financial_analysis_counting_from_one(c, cb, cbRaises) ==
    /\ pc = "Idle"
    /\ FromUi => (cb /\ c = argument)
    /\ argument' = c
    /\ company_name' = c
    /\ research_plan' = <<>>
    /\ raw_data' = <<>>
    /\ analyzed_data' = <<>>
    /\ final_report' = EmptyText
    /\ messages' = <<>>
    /\ iteration_count' = 1
    /\ quality_check_passed' = FALSE
    /\ callback' = cb
    /\ progress' = IF cb THEN <<20>> ELSE <<>>
    /\ bar' = IF FromUi THEN Append(bar, 20) ELSE bar
    /\ pc' = IF cb /\ cbRaises THEN "Raised" ELSE Edge("Start")
    /\ trace' = <<>>
    /\ last' = NothingSeen
    /\ UNCHANGED <<result, session, manager>>

run_financial_analysis(c, cb, cbRaises) ==
    /\ pc = "Idle"
    /\ FromUi => (cb /\ c = argument)
    /\ argument' = c
    /\ company_name' = c
    /\ research_plan' = <<>>
    /\ raw_data' = <<>>
    /\ analyzed_data' = <<>>
    /\ final_report' = EmptyText
    /\ messages' = <<>>
    /\ iteration_count' = 0
    /\ quality_check_passed' = FALSE
    /\ callback' = cb
    /\ progress' = IF cb THEN <<20>> ELSE <<>>
    /\ bar' = IF FromUi THEN Append(bar, 20) ELSE bar
    /\ pc' = IF cb /\ cbRaises THEN "Raised" ELSE Edge("Start")
    /\ trace' = <<>>
    /\ last' = NothingSeen
    /\ UNCHANGED <<result, session, manager>>

\* Variant: the except branch reports the error and the fallback plan in
\* two messages.
query_planner_reporting_error(r) ==
    /\ pc = "Plan"
    /\ research_plan' = PlanOf(r, company_name)
    /\ messages' = IF PlanRaises(r)
                   THEN messages \o << Msg("QueryPlanner error", 0), PlanMessage(r) >>
                   ELSE Append(messages, PlanMessage(r))
    /\ pc' = Edge("Plan")
    /\ trace' = Append(trace, "Plan")
    /\ last' = [Seen("Plan", PlanRaises(r), 0) EXCEPT !.replies = r]
    /\ UNCHANGED <<company_name, raw_data, analyzed_data, final_report,
                   iteration_count, quality_check_passed, callback, progress,
                   argument, result, bar, session, manager>>

query_planner(r) ==
    /\ pc = "Plan"
    /\ research_plan' = PlanOf(r, company_name)
    /\ messages' = Append(messages, PlanMessage(r))
    /\ pc' = Edge("Plan")
    /\ trace' = Append(trace, "Plan")
    /\ last' = [Seen("Plan", PlanRaises(r), 0) EXCEPT !.replies = r]
    /\ UNCHANGED <<company_name, raw_data, analyzed_data, final_report,
                   iteration_count, quality_check_passed, callback, progress,
                   argument, result, bar, session, manager>>

\* Variant: the step stores the symbol the market lookup resolved as the
\* company of the run.
data_fetcher_storing_symbol(w) ==
    /\ pc = "Fetch"
    /\ raw_data' = FetchRawData(raw_data, company_name, w)
    /\ company_name' = IF IsError(raw_data'["stock_data"]) THEN company_name
                       ELSE raw_data'["stock_data"].symbol
    /\ messages' = Append(messages,
                          Msg("Collected data from n sources",
                              Cardinality(DOMAIN raw_data')))
    /\ pc' = Edge("Fetch")
    /\ trace' = Append(trace, "Fetch")
    /\ last' = [ Seen("Fetch",
                       \E k \in DOMAIN raw_data' : IsError(raw_data'[k]), 0)
                  EXCEPT !.replies = w ]
    /\ UNCHANGED <<research_plan, analyzed_data, final_report,
                   iteration_count, quality_check_passed, callback, progress,
                   argument, result, bar, session, manager>>

\* Variant: the step stores its summary as the whole message list.
data_fetcher_replacing_messages(w) ==
    /\ pc = "Fetch"
    /\ raw_data' = FetchRawData(raw_data, company_name, w)
    /\ messages' = << Msg("Collected data from n sources",
                          Cardinality(DOMAIN raw_data')) >>
    /\ pc' = Edge("Fetch")
    /\ trace' = Append(trace, "Fetch")
    /\ last' = [ Seen("Fetch",
                       \E k \in DOMAIN raw_data' : IsError(raw_data'[k]), 0)
                  EXCEPT !.replies = w ]
    /\ UNCHANGED <<company_name, research_plan, analyzed_data, final_report,
                   iteration_count, quality_check_passed, callback, progress,
                   argument, result, bar, session, manager>>

data_fetcher(w) ==
    /\ pc = "Fetch"
    /\ raw_data' = FetchRawData(raw_data, company_name, w)
    /\ messages' = Append(messages,
                          Msg("Collected data from n sources",
                              Cardinality(DOMAIN raw_data')))
    /\ pc' = Edge("Fetch")
    /\ trace' = Append(trace, "Fetch")
    /\ last' = [ Seen("Fetch",
                       \E k \in DOMAIN raw_data' : IsError(raw_data'[k]), 0)
                  EXCEPT !.replies = w ]
    /\ UNCHANGED <<company_name, research_plan, analyzed_data, final_report,
                   iteration_count, quality_check_passed, callback, progress,
                   argument, result, bar, session, manager>>

\* Variant: no try/except around the generation call.
data_analyst_unguarded(r) ==
    /\ pc = "Analyze"
    /\ analyzed_data' = IF r.raises THEN analyzed_data
                        ELSE AnalyzedData(raw_data, company_name, r)
    /\ messages' = IF r.raises THEN messages
                   ELSE Append(messages, AnalystMessage(raw_data, r))
    /\ pc' = IF r.raises THEN "Raised" ELSE Edge("Analyze")
    /\ trace' = Append(trace, "Analyze")
    /\ last' = [ Seen("Analyze", r.raises, 0)
                  EXCEPT !.replies = r, !.sent = Prompt(raw_data, r.rendered) ]
    /\ UNCHANGED <<company_name, research_plan, raw_data, final_report,
                   iteration_count, quality_check_passed, callback, progress,
                   argument, result, bar, session, manager>>

data_analyst(r) ==
    /\ pc = "Analyze"
    /\ analyzed_data' = AnalyzedData(raw_data, company_name, r)
    /\ messages' = Append(messages, AnalystMessage(raw_data, r))
    /\ pc' = Edge("Analyze")
    /\ trace' = Append(trace, "Analyze")
    /\ last' = [ Seen("Analyze", r.raises, 0)
                  EXCEPT !.replies = r, !.sent = Prompt(raw_data, r.rendered) ]
    /\ UNCHANGED <<company_name, research_plan, raw_data, final_report,
                   iteration_count, quality_check_passed, callback, progress,
                   argument, result, bar, session, manager>>

\* Variant: the writer counts the pass it has written.
report_writer_counting(r) ==
    /\ pc = "Write"
    /\ final_report' = FinalReport(research_plan, r)
    /\ messages' = Append(messages, WriterMessage(research_plan, r))
    /\ iteration_count' = iteration_count + 1
    /\ pc' = Edge("Write")
    /\ trace' = Append(trace, "Write")
    /\ last' = Seen("Write", WriterRaises(research_plan, r), 0)
    /\ UNCHANGED <<company_name, research_plan, raw_data, analyzed_data,
                   quality_check_passed, callback, progress,
                   argument, result, bar, session, manager>>

report_writer(r) ==
    /\ pc = "Write"
    /\ final_report' = FinalReport(research_plan, r)
    /\ messages' = Append(messages, WriterMessage(research_plan, r))
    /\ pc' = Edge("Write")
    /\ trace' = Append(trace, "Write")
    /\ last' = Seen("Write", WriterRaises(research_plan, r), 0)
    /\ UNCHANGED <<company_name, research_plan, raw_data, analyzed_data,
                   iteration_count, quality_check_passed, callback, progress,
                   argument, result, bar, session, manager>>

quality_checker(r) ==
    /\ pc = "Check"
    /\ Count("Check", trace) < MaxChecks
    /\ quality_check_passed' =
           PassedAfter(iteration_count, research_plan, final_report, r)
    /\ messages' = Append(messages,
           CheckMessage(iteration_count, research_plan, final_report, r))
    /\ iteration_count' =
           IterationAfter(iteration_count, CheckRaises(research_plan, r))
    /\ pc' = Route(should_continue(quality_check_passed', iteration_count'))
    /\ trace' = Append(trace, "Check")
    /\ last' = [ Seen("Check", CheckRaises(research_plan, r),
                       IF CheckRaises(research_plan, r) THEN 0
                       ELSE ParseScore(r.content))
                  EXCEPT !.replies = r ]
    /\ UNCHANGED <<company_name, research_plan, raw_data, analyzed_data,
                   final_report, callback, progress,
                   argument, result, bar, session, manager>>

\* The FinancialAnalysisState the graph holds, as a record.
StateRecord ==
    [ company_name |-> company_name, research_plan |-> research_plan,
      raw_data |-> raw_data, analyzed_data |-> analyzed_data,
      final_report |-> final_report, messages |-> messages,
      iteration_count |-> iteration_count,
      quality_check_passed |-> quality_check_passed ]

\* graph.invoke has returned: the last progress report, then the result.
finish_analysis(cbRaises) ==
    /\ pc = "Done"
    /\ progress' = IF callback THEN Append(progress, 100) ELSE progress
    /\ bar' = IF FromUi THEN Append(bar, 100) ELSE bar
    /\ pc' = IF callback /\ cbRaises THEN "Raised" ELSE "Returned"
    /\ result' = IF callback /\ cbRaises THEN result ELSE StateRecord
    /\ UNCHANGED <<state, callback, argument, trace, last, session, manager>>

Init ==
    /\ pc = "Idle"
    /\ company_name = ""
    /\ research_plan = <<>>
    /\ raw_data = <<>>
    /\ analyzed_data = <<>>
    /\ final_report = EmptyText
    /\ messages = <<>>
    /\ iteration_count = 0
    /\ quality_check_passed = FALSE
    /\ callback = FALSE
    /\ progress = <<>>
    /\ argument = company_name
    /\ result = NoResult
    /\ bar = <<>>
    /\ processed_symbols = <<>>
    /\ started = <<>>
    /\ submitted = 0
    /\ api_limits = ApiLimits
    /\ incremented = NoIncrements
    /\ trace = <<>>
    /\ last = NothingSeen

Next ==
    \/ \E c \in Companies, cb \in BOOLEAN, cbRaises \in BOOLEAN :
          run_financial_analysis(c, cb, cbRaises)
    \/ \E r \in PlanReplies : query_planner(r)
    \/ \E w \in RunFetchReplies : data_fetcher(w)
    \/ \E r \in AnalysisReplies : data_analyst(r)
    \/ \E r \in ReportReplies : report_writer(r)
    \/ \E r \in CheckReplies : quality_checker(r)
    \/ \E cbRaises \in BOOLEAN : finish_analysis(cbRaises)

Spec == Init /\ [][Next]_vars

\* The run is one thread of control: a step that can run does run.
FairSpec == Spec /\ WF_vars(Next)

(***************************************************************************)
(* data_analyst applied directly to a state: raw_data as a Fetch left it,  *)
(* with market caps on both sides of the bucket limits and several         *)
(* currencies, and rendered texts on both sides of the digest's caps.      *)
(***************************************************************************)
MarketCaps ==
    {0, 999, Billion - 1, Billion, Trillion - 1, Trillion, 2 * Trillion}
Currencies == {"INR", "USD", "EUR", ""}

AnalystFetchReplies ==
    { Reply([raises |-> FALSE, regional |-> Info(0, 0, 0, ""),
             original |-> Info(60, 90, cap, cur)],
            AvAnswers, EdAnswers, NwAnswers) :
        cap \in MarketCaps, cur \in Currencies }
    \cup { Reply(YfFails, [raises |-> TRUE], EdFails, NwFails) }

AnalystReplies ==
    { [raises |-> r.raises, content |-> r.content, rendered |-> Rendering(sec, news, av)] :
        r \in AnalysisReplies,
        sec \in {SecFilingsCap - 1, SecFilingsCap, SecFilingsCap + 1, 900},
        news \in {NewsCap - 1, NewsCap, NewsCap + 1},
        av \in {60, AlphaVantageCap, AlphaVantageCap + 1} }

AnalystInit ==
    /\ pc = "Analyze"
    /\ company_name \in Companies
    /\ research_plan = FallbackPlan(company_name)
    /\ raw_data \in {FetchRawData(<<>>, company_name, w) : w \in AnalystFetchReplies}
    /\ analyzed_data = <<>>
    /\ final_report = EmptyText
    /\ messages = <<>>
    /\ iteration_count = 0
    /\ quality_check_passed = FALSE
    /\ callback = FALSE
    /\ progress = <<>>
    /\ argument = company_name
    /\ result = NoResult
    /\ bar = <<>>
    /\ processed_symbols = <<>>
    /\ started = <<>>
    /\ submitted = 0
    /\ api_limits = ApiLimits
    /\ incremented = NoIncrements
    /\ trace = <<>>
    /\ last = NothingSeen

AnalystNext == \E r \in AnalystReplies : data_analyst(r)

AnalystSpec == AnalystInit /\ [][AnalystNext]_vars

(***************************************************************************)
(* DataSourceManager (utils/data_sources.py): the calls made to each API   *)
(* today, counted by increment_api_usage, zeroed by reset_daily_counters   *)
(* and reported by check_api_status.                                       *)
(***************************************************************************)
\* The names the manager is asked about: the tracked ones and one it does
\* not track.
ApiNames == DOMAIN ApiLimits \cup {"gemini"}

\* The calls argument of increment_api_usage (1 when left out).
CallCounts == {1, 99, 400}

RECURSIVE SumOf(_)
SumOf(q) == IF q = <<>> THEN 0 ELSE Head(q) + SumOf(Tail(q))

\* check_api_status(api_name).  calls_today < float('inf') holds for every
\* count, so an API without a daily_limit is always available.
check_api_status(api_name) ==
    IF api_name \in DOMAIN api_limits
    THEN LET limit_info == api_limits[api_name]
             limited == "daily_limit" \in DOMAIN limit_info
         IN  [ available |-> IF limited
                             THEN limit_info.calls_today < limit_info.daily_limit
                             ELSE TRUE,
               remaining_calls |-> (IF limited THEN limit_info.daily_limit ELSE 0)
                                   - limit_info.calls_today,
               calls_used |-> limit_info.calls_today ]
    ELSE [ available |-> TRUE, remaining_calls |-> "unlimited", calls_used |-> 0 ]

\* Increments made since the last reset, over all APIs.
CallsMade ==
    LET RECURSIVE Total(_)
        Total(S) == IF S = {} THEN 0
                    ELSE LET a == CHOOSE x \in S : TRUE
                         IN  Len(incremented[a]) + Total(S \ {a})
    IN  Total(DOMAIN incremented)

increment_api_usage(api_name, calls) ==
    /\ CallsMade < MaxCalls
    /\ api_limits' = IF api_name \in DOMAIN api_limits
                     THEN [api_limits EXCEPT ![api_name].calls_today = @ + calls]
                     ELSE api_limits
    /\ incremented' = IF api_name \in DOMAIN api_limits
                      THEN [incremented EXCEPT ![api_name] = Append(@, calls)]
                      ELSE incremented
    /\ UNCHANGED <<pc, state, callback, progress, argument, result, bar,
                   trace, last, session>>

reset_daily_counters ==
    /\ api_limits' = [a \in DOMAIN api_limits |->
                         [api_limits[a] EXCEPT !.calls_today = 0]]
    /\ incremented' = NoIncrements
    /\ UNCHANGED <<pc, state, callback, progress, argument, result, bar,
                   trace, last, session>>

ManagerNext ==
    \/ \E api_name \in ApiNames, calls \in CallCounts :
          increment_api_usage(api_name, calls)
    \/ reset_daily_counters

ManagerSpec == Init /\ [][ManagerNext]_vars

(***************************************************************************)
(* trigger_analysis (components/ui_components.py): the four progress       *)
(* reports it makes on its own, then either the demo analysis (no API keys *)
(* configured) or the call of run_financial_analysis with a callback that  *)
(* drives the same progress bar; after the call the bar is set to 100 and  *)
(* the result is stored, an exception of the call being shown as an error. *)
(***************************************************************************)
\* create_demo_analysis(company_symbol)
DemoAnalysis(c) ==
    [ company_name |-> c, iteration_count |-> 1, quality_check_passed |-> TRUE ]

trigger_analysis(c, configured) ==
    /\ processed_symbols' = Append(processed_symbols, c)
    /\ started' = Append(started, c)
    /\ argument' = c
    /\ bar' = IF configured THEN <<10, 30, 60, 80>> ELSE <<10, 30, 60, 80, 100>>
    /\ result' = IF configured THEN result ELSE DemoAnalysis(c)
    /\ pc' = IF configured THEN "Idle" ELSE "Shown"
    /\ UNCHANGED <<state, callback, progress, trace, last, manager>>

\* render_dashboard with the form submitted for symbol c, on a script run in
\* which no analysis is under way.
render_dashboard(c, configured) ==
    /\ pc \in {"Ui", "Shown", "Failed"}
    /\ submitted < MaxSubmissions
    /\ submitted' = submitted + 1
    /\ IF \A i \in 1..Len(processed_symbols) : processed_symbols[i] # c
       THEN trigger_analysis(c, configured)
       ELSE UNCHANGED <<pc, state, callback, progress, argument, result, bar,
                        trace, last, processed_symbols, started, manager>>

\* Variant: the except branch takes the symbol off the list again.
trigger_analysis_end_allowing_retry ==
    /\ FromUi
    /\ pc \in {"Returned", "Raised"}
    /\ bar' = IF pc = "Returned" THEN Append(bar, 100) ELSE bar
    /\ result' = IF pc = "Returned" THEN result
                 ELSE [error |-> ExcMessage, company_name |-> argument]
    /\ pc' = IF pc = "Returned" THEN "Shown" ELSE "Failed"
    /\ processed_symbols' = IF pc = "Returned" THEN processed_symbols
                            ELSE SelectSeq(processed_symbols,
                                           LAMBDA x : x # argument)
    /\ UNCHANGED <<state, callback, progress, argument, trace, last,
                   started, submitted, manager>>

trigger_analysis_end ==
    /\ FromUi
    /\ pc \in {"Returned", "Raised"}
    /\ bar' = IF pc = "Returned" THEN Append(bar, 100) ELSE bar
    /\ result' = IF pc = "Returned" THEN result
                 ELSE [error |-> ExcMessage, company_name |-> argument]
    /\ pc' = IF pc = "Returned" THEN "Shown" ELSE "Failed"
    /\ UNCHANGED <<state, callback, progress, argument, trace, last,
                   session, manager>>

UiInit ==
    /\ pc = "Ui"
    /\ company_name = ""
    /\ research_plan = <<>>
    /\ raw_data = <<>>
    /\ analyzed_data = <<>>
    /\ final_report = EmptyText
    /\ messages = <<>>
    /\ iteration_count = 0
    /\ quality_check_passed = FALSE
    /\ callback = FALSE
    /\ progress = <<>>
    /\ argument = ""
    /\ result = NoResult
    /\ bar = <<>>
    /\ processed_symbols = <<>>
    /\ started = <<>>
    /\ submitted = 0
    /\ api_limits = ApiLimits
    /\ incremented = NoIncrements
    /\ trace = <<>>
    /\ last = NothingSeen

\* The first submission of a session and the analysis it starts.
UiNext ==
    \/ \E c \in Companies, configured \in BOOLEAN :
          submitted = 0 /\ render_dashboard(c, configured)
    \/ Next
    \/ trigger_analysis_end

UiSpec == UiInit /\ [][UiNext]_vars

\* A session of several submissions.  The agents of its runs answer in one
\* way each but for the report, so that a run ends in each of its three
\* ways: the result shown, the callback failing at the start, and the
\* callback failing at the end.
SessionPlanReplies == {r \in PlanReplies : r.raises}
SessionFetchReplies == {Reply(YfAnswers, AvAnswers, EdAnswers, NwAnswers)}
SessionAnalysisReplies == {r \in AnalysisReplies : ~r.raises}
SessionReportReplies == {r \in ReportReplies : r.raises \/ "BUY" \in r.content.words}
SessionCheckReplies == {r \in CheckReplies : r.raises}

SessionNext ==
    \/ \E c \in Companies, configured \in BOOLEAN : render_dashboard(c, configured)
    \/ \E c \in Companies, cbRaises \in BOOLEAN :
          run_financial_analysis(c, TRUE, cbRaises)
    \/ \E r \in SessionPlanReplies : query_planner(r)
    \/ \E w \in SessionFetchReplies : data_fetcher(w)
    \/ \E r \in SessionAnalysisReplies : data_analyst(r)
    \/ \E r \in SessionReportReplies : report_writer(r)
    \/ \E r \in SessionCheckReplies : quality_checker(r)
    \/ \E cbRaises \in BOOLEAN : finish_analysis(cbRaises)
    \/ trigger_analysis_end

SessionSpec == UiInit /\ [][SessionNext]_vars

(***************************************************************************)
(* quality_checker applied directly to a state: any iteration_count up to  *)
(* MaxIter, either value of quality_check_passed, any plan the planner can *)
(* store and any combination of the gates' inputs, the report being just   *)
(* below or just at the length the gate tests.                             *)
(***************************************************************************)
GateReports ==
    { Text(ws, n) : ws \in SUBSET {"error", "HOLD", "REVENUE"},
                    n \in {ShortReportLen - 1, ShortReportLen} }

CheckerInit ==
    /\ pc = "Check"
    /\ company_name \in Companies
    /\ research_plan \in {PlanOf(r, company_name) : r \in PlanReplies}
    /\ raw_data = <<>>
    /\ analyzed_data = <<>>
    /\ final_report \in GateReports
    /\ messages = <<>>
    /\ iteration_count \in 0..MaxIter
    /\ quality_check_passed \in BOOLEAN
    /\ callback = FALSE
    /\ progress = <<>>
    /\ argument = company_name
    /\ result = NoResult
    /\ bar = <<>>
    /\ processed_symbols = <<>>
    /\ started = <<>>
    /\ submitted = 0
    /\ api_limits = ApiLimits
    /\ incremented = NoIncrements
    /\ trace = <<>>
    /\ last = NothingSeen

CheckerNext == \E r \in CheckReplies : quality_checker(r)

CheckerSpec == CheckerInit /\ [][CheckerNext]_vars

(***************************************************************************)
(* data_fetcher applied directly to a state, on the first pass (raw_data   *)
(* empty) or on a later one (raw_data as an earlier execution left it),    *)
(* with every combination of failing and answering sources.                *)
(***************************************************************************)
FetcherInit ==
    /\ pc = "Fetch"
    /\ company_name \in Companies
    /\ research_plan = FallbackPlan(company_name)
    /\ iteration_count \in 0..1
    /\ raw_data \in IF iteration_count = 0 THEN {<<>>}
                    ELSE {FetchRawData(<<>>, company_name, w) : w \in RunFetchReplies}
    /\ analyzed_data = <<>>
    /\ final_report = EmptyText
    /\ messages = <<>>
    /\ quality_check_passed = FALSE
    /\ callback = FALSE
    /\ progress = <<>>
    /\ argument = company_name
    /\ result = NoResult
    /\ bar = <<>>
    /\ processed_symbols = <<>>
    /\ started = <<>>
    /\ submitted = 0
    /\ api_limits = ApiLimits
    /\ incremented = NoIncrements
    /\ trace = <<>>
    /\ last = NothingSeen

FetcherNext == \E w \in FetchReplies : data_fetcher(w)

FetcherSpec == FetcherInit /\ [][FetcherNext]_vars

(***************************************************************************)
(* Properties.                                                             *)
(***************************************************************************)
Steps == {"Plan", "Fetch", "Analyze", "Write", "Check"}
GraphNodes == Steps \cup {"Done"}
Checks == Count("Check", trace)
Checked == last.node = "Check"
HasMessage(label) == \E i \in 1..Len(messages) : messages[i].content = label

\* C1: whatever the steps' outcomes, a run whose graph has been entered
\* reaches Done, after 1, 2 or 3 executions of Check and with
\* iteration_count at most 3.
C1_DoneWithinThreeChecks ==
    /\ (pc = "Plan") ~> (pc = "Done")
    /\ [](pc = "Done" => Checks \in 1..3 /\ iteration_count <= 3)

C1_Witness == pc = "Done" /\ Checks = 2 /\ HasMessage("Created fallback research plan")

\* C2: after Check the graph goes to Fetch exactly when quality_check_passed
\* is false and to Done otherwise, so quality_check_passed holds at Done.
C2_BranchOnVerdictAlone ==
    /\ [][pc = "Check" =>
            pc' = IF quality_check_passed' THEN "Done" ELSE "Fetch"]_vars
    /\ [](pc = "Done" => quality_check_passed)

\* C3: a report that fails the gate at every Check is checked three times,
\* entered with iteration_count 0, 1 and 2, and the run ends with the pass
\* that "accept after max iterations" forces on the third.
C3_EndsByForcedPass ==
    (/\ pc = "Done"
     /\ Checked /\ ~last.raised
     /\ ~Lenient(last.ic_in, last.score)
     /\ needs_improvement(last.report, last.score))
    => (last.ic_in = 2 /\ Checks = 3 /\ quality_check_passed)

C5_CheckAlwaysIncrements ==
    [][pc = "Check" => iteration_count' = iteration_count + 1]_vars

C7_AcceptAtCap ==
    (Checked /\ ~last.raised /\ last.ic_in >= 2) => quality_check_passed

C7_Witness ==
    /\ Checked /\ ~last.raised /\ last.ic_in = 2
    /\ last.score < 5 /\ has_errors(last.report)
    /\ ~has_recommendation(last.report) /\ ~is_too_short(last.report)
    /\ quality_check_passed

\* C8: a Check entered with iteration_count 0 whose parsed score is 5 or
\* more leaves quality_check_passed true, whatever the gates say.
C8_LenientFirstPass ==
    (Checked /\ ~last.raised /\ last.ic_in = 0 /\ last.score >= 5)
    => quality_check_passed

C8_Witness ==
    /\ Checked /\ ~last.raised /\ last.ic_in = 0 /\ last.score = 5
    /\ has_errors(last.report) /\ ~has_recommendation(last.report)
    /\ last.report.len >= 500
    /\ quality_check_passed

\* C9: after a Check that does not raise, quality_check_passed is
\* (not needs-improvement) or (first pass and score >= 5) or
\* (iteration_count >= 2), needs-improvement being has_errors or score < 6
\* or a report not too short that lacks a recommendation or financial data.
C9_VerdictFormula ==
    (Checked /\ ~last.raised) =>
    LET r == last.report
        ni == \/ has_errors(r)
              \/ last.score < 6
              \/ (~has_recommendation(r) /\ ~is_too_short(r))
              \/ (~has_financial_data(r) /\ ~is_too_short(r))
    IN  quality_check_passed =
            (~ni \/ (last.ic_in = 0 /\ last.score >= 5) \/ last.ic_in >= 2)

C9_Witness ==
    /\ Checked /\ ~last.raised /\ last.ic_in = 1 /\ last.score >= 6
    /\ ~has_errors(last.report) /\ has_recommendation(last.report)
    /\ ~has_financial_data(last.report) /\ ~is_too_short(last.report)
    /\ ~quality_check_passed

\* C10: the steps run in the order Plan, Fetch, Analyze, Write, Check: the
\* first step is Plan, Plan runs once, and each later step is the one that
\* follows its predecessor in the cycle Fetch, Analyze, Write, Check.
C10_StepOrder ==
    /\ (pc = "Plan") = (pc \in Steps /\ trace = <<>>)
    /\ trace # <<>> => trace[1] = "Plan"
    /\ \A i \in 2..Len(trace) :
          << trace[i - 1], trace[i] >> \in
              { <<"Plan", "Fetch">>, <<"Fetch", "Analyze">>,
                <<"Analyze", "Write">>, <<"Write", "Check">>,
                <<"Check", "Fetch">> }
    /\ pc \in Steps /\ trace # <<>> =>
          << trace[Len(trace)], pc >> \in
              { <<"Plan", "Fetch">>, <<"Fetch", "Analyze">>,
                <<"Analyze", "Write">>, <<"Write", "Check">>,
                <<"Check", "Fetch">> }
    /\ pc = "Done" => trace[Len(trace)] = "Check" /\ Count("Plan", trace) = 1

C10_Witness == pc = "Done" /\ Len(trace) = 9

\* C11: once Fetch has run, raw_data holds the four keys stock_data,
\* alpha_vantage, sec_filings and news in every later state, and no step
\* removes a key: a source that answered on the first pass and fails on the
\* second is still present.
C11_FourKeysKept ==
    /\ [](Count("Fetch", trace) > 0 =>
            DOMAIN raw_data = {"stock_data", "alpha_vantage", "sec_filings", "news"})
    /\ [][DOMAIN raw_data \subseteq DOMAIN raw_data']_vars

C11_Witness ==
    /\ last.node = "Fetch" /\ Count("Fetch", trace) = 2
    /\ ~IsError(last.raw_in["news"]) /\ ~IsError(last.raw_in["stock_data"])
    /\ IsError(raw_data["news"]) /\ ~IsError(raw_data["stock_data"])

\* The call of source k raises inside its get_* method.
SourceRaises(k, w) ==
    CASE k = "stock_data" -> w.yf.raises
      [] k = "alpha_vantage" -> w.av.raises
      [] k = "sec_filings" -> w.ed.raises
      [] k = "news" -> w.nw.configured /\ w.nw.raises

\* Source k answers with data for the symbol.
SourceAnswers(k, symbol, w) ==
    CASE k = "stock_data" ->
             /\ ~w.yf.raises
             /\ w.yf.regional.fields >= MinInfoFields
             /\ w.yf.original.fields >= MinInfoFields
      [] k = "alpha_vantage" -> ~w.av.raises
      [] k = "sec_filings" -> ~w.ed.raises /\ symbol \in w.ed.tickers
      [] k = "news" -> ~(w.nw.configured /\ w.nw.raises)

\* A field every record of source k carries.
RecordField(k, v) ==
    CASE k = "stock_data" -> "company_info" \in DOMAIN v
      [] k = "alpha_vantage" -> "overview" \in DOMAIN v
      [] k = "sec_filings" -> "recent_filings" \in DOMAIN v
      [] k = "news" -> "data" \in DOMAIN v \/ "sample_headlines" \in DOMAIN v

\* C12: the four source calls are isolated from each other's failures:
\* whichever sources fail, the step returns normally with its message and
\* all four keys assigned, each failing source's value being an error
\* marker and each answering source's value its record.
C12_SourcesIsolated ==
    last.node = "Fetch" =>
        /\ pc = "Analyze"
        /\ Len(messages) = last.messages_in + 1
        /\ DOMAIN raw_data = {"stock_data", "alpha_vantage", "sec_filings", "news"}
        /\ \A k \in DOMAIN raw_data :
              /\ SourceRaises(k, last.replies) => DOMAIN raw_data[k] = {"error"}
              /\ SourceAnswers(k, company_name, last.replies) =>
                     ~IsError(raw_data[k]) /\ RecordField(k, raw_data[k])

C12_Witness ==
    /\ last.node = "Fetch" /\ pc = "Analyze"
    /\ last.raw_in # <<>> /\ \A k \in DOMAIN last.raw_in : ~IsError(last.raw_in[k])
    /\ SourceRaises("stock_data", last.replies)
    /\ SourceRaises("sec_filings", last.replies)
    /\ SourceAnswers("alpha_vantage", company_name, last.replies)
    /\ SourceAnswers("news", company_name, last.replies)
    /\ IsError(raw_data["stock_data"]) /\ IsError(raw_data["sec_filings"])
    /\ ~IsError(raw_data["alpha_vantage"]) /\ ~IsError(raw_data["news"])

C14_ReportNonEmpty ==
    /\ [](Count("Write", trace) > 0 => final_report.len > 0)
    /\ [][final_report.len > 0 => final_report'.len > 0]_vars

C14_Witness ==
    /\ pc = "Done" /\ Count("Write", trace) = 2
    /\ HasMessage("Generated comprehensive investment report")
    /\ HasMessage("Report generation failed, error report created")
    /\ final_report.len > 0

\* C15: once Analyze has run, analyzed_data has exactly the keys
\* detailed_analysis, timestamp, data_sources_used or exactly the keys
\* error, fallback_analysis: never none, never a mixture, also when the
\* second pass fails after the first succeeded.
C15_AnalysisShape ==
    Count("Analyze", trace) > 0 =>
        DOMAIN analyzed_data \in
            { {"detailed_analysis", "timestamp", "data_sources_used"},
              {"error", "fallback_analysis"} }

C15_Witness ==
    /\ last.node = "Analyze" /\ last.raised /\ Count("Analyze", trace) = 2
    /\ "detailed_analysis" \in DOMAIN last.analyzed_in
    /\ DOMAIN analyzed_data = {"error", "fallback_analysis"}

\* C16: the message list only grows: every transition keeps the messages
\* it finds, in order, and every execution of a step appends at least one
\* message to them.
C16_MessagesOnlyGrow ==
    [][ /\ Len(messages') >= Len(messages)
        /\ SubSeq(messages', 1, Len(messages)) = messages
        /\ (pc \in Steps => Len(messages') >= Len(messages) + 1) ]_vars

C16_Witness ==
    /\ pc = "Done" /\ Len(trace) = 9 /\ Len(messages) = 9
    /\ HasMessage("Analysis encountered issues, fallback analysis created")
    /\ HasMessage("Report generation failed, error report created")
    /\ HasMessage("Quality check failed due to error, accepting report")

\* C17: a step changes only the fields it owns, and messages: Plan owns
\* research_plan, Fetch raw_data, Analyze analyzed_data, Write final_report,
\* Check quality_check_passed and iteration_count.  So the passes of the
\* loop leave research_plan as Plan stored it, and only Check changes
\* iteration_count.
C17_StepsWriteOwnFields ==
    [][ /\ (pc = "Plan") =>
              UNCHANGED <<company_name, raw_data, analyzed_data, final_report,
                          iteration_count, quality_check_passed>>
        /\ (pc = "Fetch") =>
              UNCHANGED <<company_name, research_plan, analyzed_data,
                          final_report, iteration_count, quality_check_passed>>
        /\ (pc = "Analyze") =>
              UNCHANGED <<company_name, research_plan, raw_data, final_report,
                          iteration_count, quality_check_passed>>
        /\ (pc = "Write") =>
              UNCHANGED <<company_name, research_plan, raw_data, analyzed_data,
                          iteration_count, quality_check_passed>>
        /\ (pc = "Check") =>
              UNCHANGED <<company_name, research_plan, raw_data, analyzed_data,
                          final_report>>
        /\ (pc \in {"Fetch", "Analyze", "Write", "Check"}) =>
              UNCHANGED research_plan
        /\ (pc # "Check" /\ pc # "Idle") => UNCHANGED iteration_count ]_vars

C17_Witness ==
    /\ last.node = "Check" /\ Checks = 2 /\ iteration_count = 2
    /\ research_plan = DefaultTasks(company_name)
    /\ Count("Write", trace) = 2

\* C18: company_name is set when the run starts and is the same in every
\* later state, Done included: no step writes it.
C18_CompanyNameFixed ==
    /\ [][pc # "Idle" => company_name' = company_name]_vars
    /\ [](pc # "Idle" => company_name \in Companies)

C18_Witness ==
    /\ pc = "Done" /\ Checks = 2 /\ company_name = "ACME"
    /\ ~IsError(raw_data["stock_data"])
    /\ raw_data["stock_data"].symbol = "ACME.NS"

\* C19: run_financial_analysis hands the engine the zeroed state (empty
\* research_plan, raw_data, analyzed_data, final_report and messages,
\* iteration_count 0, quality_check_passed false) with company_name equal
\* to its argument, and returns the state the engine ended in, unchanged.
C19_ZeroedStartVerbatimReturn ==
    /\ pc = "Plan" =>
          /\ company_name = argument
          /\ research_plan = <<>> /\ raw_data = <<>> /\ analyzed_data = <<>>
          /\ final_report.len = 0 /\ messages = <<>>
          /\ iteration_count = 0 /\ quality_check_passed = FALSE
    /\ pc \in Steps \cup {"Done", "Returned"} => company_name = argument
    /\ pc = "Returned" => result = StateRecord /\ last.node = "Check"

C19_Witness ==
    /\ pc = "Returned" /\ callback /\ progress = <<20, 100>>
    /\ result.company_name = "TCS.NS" /\ argument = "TCS.NS"
    /\ result.iteration_count = 2 /\ Len(result.messages) = 9
    /\ result.final_report.len > 0

\* C20: a progress callback that raises does not affect the analysis:
\* whatever the callback does when it is invoked, the run enters the graph,
\* and once the graph is at Done the run returns the state the graph ended
\* in.
C20_CallbackFailureHarmless ==
    /\ [][pc = "Idle" => pc' = "Plan"]_vars
    /\ [][pc = "Done" => (pc' = "Returned" /\ result' = StateRecord)]_vars

\* C21: during one analysis the percentages reported to the presentation
\* layer, those handed to the progress callback and those set on the
\* progress bar, never decrease, and the last one of a completed analysis
\* is 100.
C21_ProgressNeverDecreases ==
    /\ \A i \in 1..(Len(progress) - 1) : progress[i] <= progress[i + 1]
    /\ \A i \in 1..(Len(bar) - 1) : bar[i] <= bar[i + 1]
    /\ pc = "Shown" => bar[Len(bar)] = 100

\* C22: when the four source calls of Fetch have failed, raw_data holding
\* four error markers, Analyze writes analyzed_data with exactly the keys
\* error and fallback_analysis, the fallback text naming the company.
C22_FallbackOnFourErrors ==
    (/\ last.node = "Analyze"
     /\ DOMAIN raw_data = {"stock_data", "alpha_vantage", "sec_filings", "news"}
     /\ \A k \in DOMAIN raw_data : IsError(raw_data[k]))
    => /\ DOMAIN analyzed_data = {"error", "fallback_analysis"}
       /\ analyzed_data.fallback_analysis.about = company_name

\* The generated text of the planner yields no list of tasks with
\* descriptions: the call raised, there is no '[', the '[' is not closed by
\* a later ']', the text between the brackets is not JSON, or a task has no
\* description.
PlanUnusable(r) ==
    \/ r.raises
    \/ r.lb = -1
    \/ r.rb < r.lb
    \/ ~r.valid
    \/ \E i \in 1..Len(r.tasks) : ~r.tasks[i].hasDesc

\* C23: Plan never raises: it hands over to Fetch with one message
\* appended, and whenever the generation call fails or its text yields no
\* list of tasks with descriptions, research_plan is one of the two fixed
\* plans, of 3 or 4 items that each name the company.
C23_PlanFallsBack ==
    last.node = "Plan" =>
        /\ pc = "Fetch"
        /\ Len(messages) = last.messages_in + 1
        /\ PlanUnusable(last.replies) =>
              /\ Len(research_plan) \in {3, 4}
              /\ research_plan \in {DefaultTasks(company_name),
                                    FallbackPlan(company_name)}
              /\ \A i \in 1..Len(research_plan) :
                    research_plan[i].isStr /\ research_plan[i].about = company_name

C23_Witness ==
    /\ last.node = "Plan" /\ ~last.replies.raises
    /\ last.replies.lb = 0 /\ last.replies.rb = -1
    /\ research_plan = FallbackPlan(company_name)
    /\ HasMessage("Created fallback research plan")

\* C24: the market lookup for an identifier without an exchange suffix
\* selects the regional variant (identifier + ".NS") and tags the record as
\* the regional market exactly when the regional variant answers with more
\* than 50 fields and a current price; otherwise the record carries the
\* identifier as given and is tagged as the international market.
C24_RegionalWhenRich ==
    (last.node = "Fetch" /\ ~HasExchangeSuffix(company_name)) =>
        LET yf == last.replies.yf
            v == raw_data["stock_data"]
            rich == yf.regional.fields > 50 /\ yf.regional.currentPrice # 0
        IN  /\ (rich /\ ~yf.raises) => ~IsError(v)
            /\ ~IsError(v) =>
                  /\ v.original_symbol = company_name
                  /\ IF rich
                     THEN /\ v.symbol = RegionalVariant(company_name)
                          /\ v.market = "Indian Market"
                          /\ v.company_info = yf.regional
                     ELSE /\ v.symbol = company_name
                          /\ v.market = "International Market"
                          /\ v.company_info = yf.original

C24_Witness ==
    /\ last.node = "Fetch" /\ company_name = "ACME"
    /\ last.replies.yf.regional.fields = 51
    /\ ~IsError(raw_data["stock_data"])
    /\ raw_data["stock_data"].symbol = "ACME.NS"
    /\ raw_data["stock_data"].market = "Indian Market"

\* C25: in a run of the graph Check is executed at most twice and is
\* entered only with iteration_count 0 or 1; iteration_count never exceeds
\* 2, and no Check takes the branch that accepts the report because
\* iteration_count >= 2.
C25_AtMostTwoChecks ==
    /\ Checks <= 2
    /\ iteration_count <= 2
    /\ pc = "Check" => iteration_count \in {0, 1}
    /\ Checked => /\ last.ic_in \in {0, 1}
                  /\ ~(~last.raised /\ AcceptAfterMax(last.ic_in))

C25_Witness ==
    /\ pc = "Done" /\ Checked /\ ~last.raised
    /\ Checks = 2 /\ iteration_count = 2 /\ last.ic_in = 1
    /\ needs_improvement(last.report, last.score)
    /\ ~quality_check_passed

\* C26: at Done iteration_count is 0, 1 or 2, and a run that ends with
\* quality_check_passed false ends with iteration_count 2: only the cap of
\* the graph, after the second Check, ends a run unapproved.
C26_UnapprovedOnlyAtCap ==
    pc \in {"Done", "Returned"} =>
        /\ iteration_count \in {0, 1, 2}
        /\ ~quality_check_passed => (iteration_count = 2 /\ Checks = 2)

C26_Witness ==
    /\ pc = "Returned" /\ ~result.quality_check_passed
    /\ result.iteration_count = 2 /\ has_errors(result.final_report)

\* C27: a Check that raises ends the run at that pass: the graph goes from
\* it to Done, never back to Fetch, on the first pass and on the second.
C27_FaultingCheckEndsRun ==
    [][(pc = "Check" /\ last'.raised) => pc' = "Done"]_vars

C27_Witness ==
    /\ pc = "Done" /\ Checked /\ last.raised
    /\ Checks = 1 /\ last.ic_in = 0 /\ iteration_count = 0
    /\ has_errors(last.report) /\ quality_check_passed

\* C28: whether the loop repeats depends on the first Check alone: the
\* graph goes back to Fetch after it exactly when it did not raise and the
\* score it parsed is below 5, whatever the gates has_errors,
\* has_recommendation, has_financial_data and is_too_short say; a later
\* Check never repeats the loop, so Fetch runs once or twice.
C28_LoopDecidedByFirstScore ==
    /\ [][(pc = "Check" /\ Checks = 0) =>
            ((pc' = "Fetch") <=> (~last'.raised /\ last'.score < 5))]_vars
    /\ [][(pc = "Check" /\ Checks >= 1) => pc' = "Done"]_vars
    /\ [](Count("Fetch", trace) <= 2)

C28_Witness ==
    /\ pc = "Fetch" /\ Checked /\ Checks = 1 /\ ~last.raised
    /\ last.score < 5
    /\ ~has_errors(last.report) /\ has_recommendation(last.report)
    /\ has_financial_data(last.report) /\ ~is_too_short(last.report)

\* C29: every execution of a step appends exactly one message, on its
\* success path and on its failure path: in every state messages is as
\* long as the number of steps executed so far, 5 at Done after one pass
\* and 9 after two.
C29_OneMessagePerStep ==
    /\ Len(messages) = Len(trace)
    /\ pc = "Done" => \/ Checks = 1 /\ Len(messages) = 5
                      \/ Checks = 2 /\ Len(messages) = 9

C29_Witness ==
    /\ pc = "Done" /\ Checks = 1 /\ Len(messages) = 5
    /\ HasMessage("Created fallback research plan")
    /\ HasMessage("Report generation failed, error report created")
    /\ HasMessage("Quality check failed due to error, accepting report")

\* C30: an execution of Fetch replaces the four values of raw_data by the
\* results of that pass: each value is what its source answered on this
\* pass, a source that fails on this pass holds the new error marker even
\* if an earlier pass had stored its record, and nothing of the earlier
\* pass is kept.
C30_FetchOverwrites ==
    last.node = "Fetch" =>
        LET w == last.replies
        IN  /\ raw_data["stock_data"] = get_stock_data(company_name, w.yf)
            /\ raw_data["alpha_vantage"] = get_alpha_vantage_data(company_name, w.av)
            /\ raw_data["sec_filings"] = get_sec_filings(company_name, w.ed)
            /\ raw_data["news"] = get_financial_news(company_name, w.nw)
            /\ \A k \in DOMAIN raw_data :
                  SourceRaises(k, w) => IsError(raw_data[k])

C30_Witness ==
    /\ last.node = "Fetch" /\ iteration_count = 1
    /\ last.raw_in # <<>>
    /\ ~IsError(last.raw_in["news"]) /\ ~IsError(last.raw_in["alpha_vantage"])
    /\ SourceRaises("news", last.replies)
    /\ SourceRaises("alpha_vantage", last.replies)
    /\ raw_data["news"] = ErrorMarker("News fetch error")
    /\ raw_data["alpha_vantage"] = ErrorMarker("Alpha Vantage API error")

\* The assessment has no line with 'QUALITY_SCORE:', or what follows the
\* colon on the first such line is no integer.
ScoreUnreadable(assessment) ==
    \/ \A i \in 1..Len(assessment) : ~HasMarker(assessment[i])
    \/ LET line == assessment[CHOOSE i \in 1..Len(assessment) :
                                 /\ HasMarker(assessment[i])
                                 /\ \A j \in 1..(i - 1) : ~HasMarker(assessment[j])]
       IN  Len(line[2]) = 0 \/ ~IsInt(line[2][1])

\* C31: the score the quality gate uses is an integer in 1..10; it is 8
\* whenever the assessment has no QUALITY_SCORE line or the value on that
\* line is no integer; and a score that cannot be parsed never makes Check
\* take its except branch: only the generation call or the join of the
\* plan does.
C31_ScoreInRange ==
    Checked =>
        /\ last.raised => (last.replies.raises \/ JoinRaises(research_plan))
        /\ ~last.raised =>
              /\ last.score \in 1..10
              /\ ScoreUnreadable(last.replies.content) => last.score = 8

\* C32: when Write fails, final_report is the fixed error report: it
\* contains the company name, the phrase "technical difficulties", the
\* message of the exception and the names of the data sources in raw_data;
\* and the Check of the same pass finds has_errors true for it.
C32_ErrorReportContents ==
    /\ (last.node = "Write" /\ last.raised) =>
          /\ {company_name, "technical difficulties"} \subseteq final_report.words
          /\ ExcMessage.words \subseteq final_report.words
          /\ {"stock_data", "alpha_vantage", "sec_filings", "news"}
                 \subseteq final_report.words
          /\ final_report.len = ErrorReportLen + ExcMessage.len
          /\ has_errors(final_report)
    /\ (/\ Checked
        /\ messages[Len(messages) - 1].content =
               "Report generation failed, error report created")
       => has_errors(last.report)

C32_Witness ==
    /\ Checked /\ ~last.raised /\ last.ic_in = 1 /\ last.score >= 6
    /\ messages[Len(messages) - 1].content =
           "Report generation failed, error report created"
    /\ has_errors(last.report) /\ "TCS.NS" \in last.report.words
    /\ ~quality_check_passed

\* The summary of a text of n characters under a cap is the text itself
\* when n <= cap, and its first cap characters followed by "..." otherwise.
Bounded(sm, n, cap) ==
    /\ n <= cap => (sm.kept = n /\ ~sm.ellipsis /\ SummaryLen(sm) = n)
    /\ n > cap => (sm.kept = cap /\ sm.ellipsis /\ SummaryLen(sm) = cap + 3)
    /\ SummaryLen(sm) <= cap + 3

\* C33: in the digest Analyze builds, the text of each source is bounded:
\* a text no longer than the cap of its source (500 characters for the
\* filings, 300 for the news and for the fundamentals) is included as it
\* is, a longer one is cut to exactly the cap and followed by "...", so no
\* source contributes more than cap + 3 characters.
C33_DigestBounded ==
    last.node = "Analyze" =>
        /\ Bounded(last.sent.sec_summary, last.replies.rendered.sec_filings, 500)
        /\ Bounded(last.sent.news_summary, last.replies.rendered.news, 300)
        /\ Bounded(last.sent.av_summary, last.replies.rendered.alpha_vantage, 300)

C33_Witness ==
    /\ last.node = "Analyze"
    /\ last.replies.rendered = Rendering(501, 300, 301)
    /\ last.sent.sec_summary = [kept |-> 500, ellipsis |-> TRUE]
    /\ last.sent.news_summary = [kept |-> 300, ellipsis |-> FALSE]
    /\ last.sent.av_summary = [kept |-> 300, ellipsis |-> TRUE]

\* The symbol a currency code is written with.
SymbolOf(currency) ==
    CASE currency = "INR" -> "rupee"
      [] currency = "USD" -> "dollar"
      [] currency = "EUR" -> "euro"

\* C36: in the market summary of Analyze a positive market cap is rendered
\* in exactly one bucket chosen by its size (T from 10^12, B from 10^9 and
\* below 10^12, M below 10^9), prefixed with the symbol of the currency
\* code of the record.
C36_MarketCapRendering ==
    (/\ last.node = "Analyze"
     /\ last.sent.stock_summary.available
     /\ raw_data["stock_data"].company_info.marketCap > 0)
    => LET cap == raw_data["stock_data"].company_info.marketCap
           str == last.sent.stock_summary.market_cap
       IN  /\ str.bucket = (IF cap >= Trillion THEN "T"
                            ELSE IF cap >= Billion THEN "B" ELSE "M")
           /\ str.symbol = SymbolOf(raw_data["stock_data"].currency)

\* C34: the filings lookup returns, in their order, the entries among the
\* 20 most recent filings whose form is 10-K, 10-Q, 8-K or DEF 14A: the cap
\* of 20 comes before the filter, so at most 20 entries are returned and
\* none from position 21 on; a symbol without a CIK yields an error marker.
C34_FilingsCappedThenFiltered ==
    (last.node = "Fetch" /\ ~last.replies.ed.raises) =>
        LET ed == last.replies.ed
            v == raw_data["sec_filings"]
        IN  IF company_name \notin ed.tickers
            THEN DOMAIN v = {"error"}
            ELSE LET f == v.recent_filings
                 IN  /\ Len(f) <= 20
                     /\ \A i \in 1..Len(f) :
                           /\ f[i].index \in 1..20
                           /\ f[i].form = ed.forms[f[i].index]
                           /\ f[i].form \in {"10-K", "10-Q", "8-K", "DEF 14A"}
                     /\ \A i \in 1..(Len(f) - 1) : f[i].index < f[i + 1].index
                     /\ \A j \in 1..Len(ed.forms) :
                           (j <= 20 /\ ed.forms[j] \in {"10-K", "10-Q", "8-K", "DEF 14A"})
                           => \E i \in 1..Len(f) : f[i].index = j

C34_Witness ==
    /\ last.node = "Fetch" /\ ~last.replies.ed.raises
    /\ Len(last.replies.ed.forms) = 22
    /\ last.replies.ed.forms[21] = "10-Q"
    /\ raw_data["sec_filings"].recent_filings = <<[form |-> "10-Q", index |-> 2]>>

\* C35: without a configured news API key the news lookup returns the
\* placeholder record, a message and three sample headlines that name the
\* company, and not an error marker; it returns an error marker only when
\* the lookup itself raises.
C35_NewsPlaceholder ==
    last.node = "Fetch" =>
        LET nw == last.replies.nw
            v == raw_data["news"]
        IN  /\ ~nw.configured =>
                  /\ DOMAIN v = {"message", "sample_headlines"}
                  /\ Len(v.sample_headlines) = 3
                  /\ \A i \in 1..3 : v.sample_headlines[i] = company_name
            /\ IsError(v) <=> (nw.configured /\ nw.raises)

C35_Witness ==
    /\ last.node = "Fetch" /\ ~last.replies.nw.configured
    /\ SourceRaises("stock_data", last.replies)
    /\ raw_data["news"].sample_headlines = <<"ACME", "ACME", "ACME">>

\* C37: within one UI session a symbol is analysed at most once: the
\* symbols whose analysis started are pairwise different, each is on
\* processed_symbols from the moment its analysis starts, whatever the
\* result of the run, and no step takes a symbol off the list.
C37_AnalysedAtMostOnce ==
    /\ [](/\ \A i, j \in 1..Len(started) : started[i] = started[j] => i = j
          /\ \A i \in 1..Len(started) :
                \E j \in 1..Len(processed_symbols) :
                   processed_symbols[j] = started[i])
    /\ [][/\ Len(processed_symbols') >= Len(processed_symbols)
          /\ SubSeq(processed_symbols', 1, Len(processed_symbols))
                = processed_symbols]_vars

\* The first run of a symbol ended in the error result and the same symbol
\* was submitted twice more without a run starting.
C37_Witness ==
    /\ pc = "Failed"
    /\ "error" \in DOMAIN result
    /\ submitted = MaxSubmissions
    /\ started = <<result.company_name>>
    /\ processed_symbols = started

\* C38: for every tracked API, check_api_status reports it available exactly
\* when the remaining_calls it reports are positive, and calls_used is the
\* sum of the increments since the last reset.
C38_AvailableIffRemaining ==
    \A a \in DOMAIN api_limits :
       LET status == check_api_status(a)
       IN  /\ status.available <=> status.remaining_calls > 0
           /\ status.calls_used = SumOf(incremented[a])

====
